---- MODULE Spec2Model ----
(***************************************************************************)
(* SysWatch: the adaptive sampling and ranking engine of ResourceMonitor   *)
(* (src/src/main.rs).                                                      *)
(*                                                                         *)
(* Time is counted in units of 0.05 s, so that the 0.1 s wake floor of     *)
(* update() is two units and a shorter remainder exists; strings are       *)
(* sequences of ASCII bytes; an f32 is a record [nan, val];                *)
(* Option<T> is <<>> for None and <<x>> for Some(x).                       *)
(***************************************************************************)
EXTENDS Integers, Sequences, FiniteSets, TLC

VARIABLES
    now,                \* the monotonic clock read by Instant::now()
    system,             \* sysinfo::System: what the provider last reported
    processes,          \* Vec<ProcessInfo>
    disks,              \* Vec<DiskInfo>
    process_indices,    \* Vec<usize>
    sort_column,        \* SortColumn
    sort_descending,    \* bool
    selected_pid,       \* Option<u32>
    update_interval,    \* f32 seconds, here units of 0.05 s
    last_update,        \* Instant
    history,            \* VecDeque<(f64, f64)>
    process_filter,     \* String
    energy_saving_mode, \* bool
    tick,               \* the locals and requests of the latest update(ctx)
    op,                 \* the handler that ran last
    pushed,             \* every sample handed to history.push_back, in order
    kill_outcome        \* what the latest handler asked of process.kill() and printed

vars == <<now, system, processes, disks, process_indices, sort_column, sort_descending,
          selected_pid, update_interval, last_update, history, process_filter,
          energy_saving_mode, tick, op, pushed, kill_outcome>>

----------------------------------------------------------------------------
(* Bounds of the model *)

MaxTime == 12
MaxInterval == 3
MaxPushes == 3
ExtraPushes == 3

(* Program constants, in the units above *)

max_history_points == 100
MinWake == 2
SliderMin == 2
SliderMax == 100
InitialInterval == 20
BytesPerMB == 1048576

----------------------------------------------------------------------------
(* Values *)

None == <<>>
Some(x) == <<x>>

F32(v) == [nan |-> FALSE, val |-> v]
NaN == [nan |-> TRUE, val |-> 0]

Max(a, b) == IF a >= b THEN a ELSE b

----------------------------------------------------------------------------
(* Strings are sequences of bytes (ASCII): String::to_lowercase,           *)
(* str::contains, Ord for String, format!                                  *)

LowerByte(c) == IF c >= 65 /\ c <= 90 THEN c + 32 ELSE c

to_lowercase(s) == [i \in 1..Len(s) |-> LowerByte(s[i])]

contains(hay, needle) ==
    \E i \in 0..(Len(hay) - Len(needle)) :
        SubSeq(hay, i + 1, i + Len(needle)) = needle

RECURSIVE Decimal(_)
Decimal(n) == IF n < 10 THEN <<48 + n>>
              ELSE Append(Decimal(n \div 10), 48 + (n % 10))

\* format!("PID: {}", pid)
PidLabel(pid) == <<80, 73, 68, 58, 32>> \o Decimal(pid)

Reverse(o) == IF o = "Less" THEN "Greater"
              ELSE IF o = "Greater" THEN "Less" ELSE "Equal"

IntCmp(a, b) == IF a < b THEN "Less" ELSE IF a > b THEN "Greater" ELSE "Equal"

RECURSIVE StrCmp(_, _)
StrCmp(a, b) ==
    IF a = <<>> /\ b = <<>> THEN "Equal"
    ELSE IF a = <<>> THEN "Less"
    ELSE IF b = <<>> THEN "Greater"
    ELSE IF a[1] # b[1]
         THEN IntCmp(a[1], b[1])
         ELSE StrCmp(Tail(a), Tail(b))

\* f32::partial_cmp(..).unwrap_or(Ordering::Equal)
CpuCmp(x, y) == IF x.nan \/ y.nan THEN "Equal" ELSE IntCmp(x.val, y.val)

----------------------------------------------------------------------------
(* What the telemetry provider (sysinfo) may hand over *)

Run == <<82, 117, 110>>             \* "Run"
Sleep == <<83, 108, 101, 101, 112>>  \* "Sleep"

\* raw process descriptors: the names "Ab" and "aB", an empty name, a
\* non-comparable cpu value, and a tie on memory and on status
ProcPool ==
    { [pid |-> 7,  name |-> <<65, 98>>, cpu_usage |-> F32(1), memory |-> 3,
       status |-> Run, user_id |-> Some("S-1-5-18"), cmd |-> <<"ab.exe", "-x">>],
      [pid |-> 42, name |-> <<>>, cpu_usage |-> NaN, memory |-> 2,
       status |-> Sleep, user_id |-> None, cmd |-> <<>>],
      [pid |-> 3,  name |-> <<97, 66>>, cpu_usage |-> F32(2), memory |-> 3,
       status |-> Run, user_id |-> Some("S-1-5-21"), cmd |-> <<"aB">>] }

\* system.processes() iterates a map keyed by pid: each pid once, any order
RawSnapshots ==
    UNION { { s \in [1..n -> ProcPool] :
                \A i, j \in 1..n : i # j => s[i].pid # s[j].pid } :
            n \in 0..Cardinality(ProcPool) }

\* "", "ab" and "P"
Filters == { <<>>, <<97, 98>>, <<80>> }

DiskPool ==
    { [name |-> "C:", total_space |-> 1000, available_space |-> 250,
       kind |-> "SSD", file_system |-> "NTFS"],
      [name |-> "D:", total_space |-> 0, available_space |-> 0,
       kind |-> "Removable", file_system |-> "FAT32"],
      [name |-> "E:", total_space |-> 100, available_space |-> 200,
       kind |-> "HDD", file_system |-> "NTFS"] }

DiskLists ==
    { <<>>,
      <<CHOOSE d \in DiskPool : d.name = "C:">>,
      <<CHOOSE d \in DiskPool : d.name = "D:", CHOOSE d \in DiskPool : d.name = "E:">> }

\* used memory in bytes, as loaded once by System::new_with_specifics
MemoryReadings == {3 * BytesPerMB}

\* one unremarkable answer of the provider: a single process, an idle cpu,
\* one disk.  It is also what System::new_with_specifics loads; update
\* reads neither the table nor the cpu before its first refresh replaces them
Quiet == [raw |-> <<CHOOSE p \in ProcPool : p.pid = 7>>,
          cpu |-> 0,
          disks |-> <<CHOOSE d \in DiskPool : d.name = "C:">>]

----------------------------------------------------------------------------
(* ResourceMonitor::update: the scheduler *)

\* mutant: the unfocused factor is applied on top of the energy-saving one
effective_interval_stacked(is_focused, energy, base) ==
    (IF energy THEN base * 2 ELSE base) * (IF is_focused THEN 1 ELSE 5)

effective_interval(is_focused, energy, base) ==
    IF is_focused
    THEN (IF energy THEN base * 2 ELSE base)
    ELSE base * 5

\* mutant: the wait is not floored at the minimum wake quantum
time_until_next_update_unfloored(effective, since) == effective - since

\* the wait handed to ctx.request_repaint_after by a declining tick
time_until_next_update(effective, since) == Max(effective - since, MinWake)

\* mutant: the disk gate opens already at twice the base interval
disk_due_inclusive(since, base) == since >= base * 2

\* the gate of update_disk_info inside a refreshing tick
disk_due(since, base) == since > base * 2

----------------------------------------------------------------------------
(* ResourceMonitor::update: ingestion of the process table *)

display_name(p) == IF p.name = <<>> THEN PidLabel(p.pid) ELSE p.name

\* mutant: the name is compared as it is spelled
passes_filter_case_sensitive(name, filter) ==
    IF filter # <<>>
    THEN contains(name, to_lowercase(filter))
    ELSE TRUE

passes_filter(name, filter) ==
    IF filter # <<>>
    THEN contains(to_lowercase(name), to_lowercase(filter))
    ELSE TRUE

ProcessInfoOf(p) ==
    [name |-> display_name(p),
     pid |-> p.pid,
     cpu_usage |-> p.cpu_usage,
     memory_usage |-> p.memory,
     status |-> p.status,
     user |-> p.user_id,
     command_line |-> IF p.cmd = <<>> THEN None ELSE Some(p.cmd[1])]

Ingest(raw, filter) ==
    LET Keep(p) == passes_filter(display_name(p), filter)
        kept == SelectSeq(raw, Keep)
    IN [i \in 1..Len(kept) |-> ProcessInfoOf(kept[i])]

----------------------------------------------------------------------------
(* ResourceMonitor::sort_process_indices; positions are 0-based as in the  *)
(* code, so position a is procs[a + 1]                                     *)

KeyCmp(procs, col, a, b) ==
    IF col = "Name" THEN StrCmp(procs[a + 1].name, procs[b + 1].name)
    ELSE IF col = "Cpu" THEN CpuCmp(procs[a + 1].cpu_usage, procs[b + 1].cpu_usage)
    ELSE IF col = "Memory" THEN IntCmp(procs[a + 1].memory_usage, procs[b + 1].memory_usage)
    ELSE StrCmp(procs[a + 1].status, procs[b + 1].status)

\* the closure given to sort_by
Compare(procs, col, desc, a, b) ==
    IF desc THEN Reverse(KeyCmp(procs, col, a, b)) ELSE KeyCmp(procs, col, a, b)

\* slice::sort_by on a short slice: a stable insertion sort that moves an
\* element left past every predecessor it is Less than
RECURSIVE InsertTail(_, _, _, _, _)
InsertTail(sorted, x, procs, col, desc) ==
    IF sorted = <<>> THEN <<x>>
    ELSE IF Compare(procs, col, desc, x, sorted[Len(sorted)]) = "Less"
         THEN Append(InsertTail(SubSeq(sorted, 1, Len(sorted) - 1), x, procs, col, desc),
                     sorted[Len(sorted)])
         ELSE Append(sorted, x)

RECURSIVE SortBy(_, _, _, _)
SortBy(v, procs, col, desc) ==
    IF v = <<>> THEN <<>>
    ELSE InsertTail(SortBy(SubSeq(v, 1, Len(v) - 1), procs, col, desc),
                    v[Len(v)], procs, col, desc)

\* mutant: the index of the previous cache is kept when the lengths differ
sort_process_indices_stale(indices, procs, col, desc) ==
    IF Len(indices) # Len(procs) THEN indices ELSE SortBy(indices, procs, col, desc)

sort_process_indices(indices, procs, col, desc) ==
    LET start == IF Len(indices) # Len(procs)
                 THEN [i \in 1..Len(procs) |-> i - 1]
                 ELSE indices
    IN SortBy(start, procs, col, desc)

----------------------------------------------------------------------------
(* ResourceMonitor::new and update_disk_info: the disk list.  The inputs   *)
(* are chosen so that used / total * 100 is a whole number.                *)

\* mutant: plain subtraction, no floor at zero
saturating_sub_unfloored(a, b) == a - b

saturating_sub(a, b) == IF a >= b THEN a - b ELSE 0

usage_percent(used, total) == IF total > 0 THEN (used * 100) \div total ELSE 0

disk_type_str(kind) == IF kind = "SSD" THEN "SSD"
                       ELSE IF kind = "HDD" THEN "HDD" ELSE "Unknown"

DiskInfoOf(d) ==
    [name |-> d.name,
     total_space |-> d.total_space,
     available_space |-> d.available_space,
     used_space |-> saturating_sub(d.total_space, d.available_space),
     usage_percent |-> usage_percent(saturating_sub(d.total_space, d.available_space),
                                     d.total_space),
     disk_type |-> disk_type_str(d.kind),
     file_system |-> d.file_system]

update_disk_info(list) == [i \in 1..Len(list) |-> DiskInfoOf(list[i])]

----------------------------------------------------------------------------
(* ResourceMonitor::update: the history ring *)

\* mutant: the oldest sample is dropped one push too late
history_push_late(h, sample) ==
    Append(IF Len(h) > max_history_points THEN Tail(h) ELSE h, sample)

history_push(h, sample) ==
    Append(IF Len(h) >= max_history_points THEN Tail(h) ELSE h, sample)

Sample(total_cpu, used_memory) == <<total_cpu, used_memory \div BytesPerMB>>

----------------------------------------------------------------------------
(* State after ResourceMonitor::new *)

\* no kill() was requested and nothing was printed
NoKill == [requests |-> 0, killed |-> FALSE, printed |-> None]

NoTick == [is_focused |-> FALSE, at |-> 0, time_since_update |-> 0,
           effective_interval |-> 0, refreshed |-> FALSE,
           repaint_after |-> 0, disk_updated |-> FALSE]

Init ==
    /\ now = 0
    /\ \E m \in MemoryReadings :
          system = [processes |-> Quiet.raw, cpu |-> Quiet.cpu, used_memory |-> m]
    /\ processes = <<>>
    /\ \E list \in DiskLists : disks = update_disk_info(list)
    /\ process_indices = <<>>
    /\ sort_column = "Name"
    /\ sort_descending = FALSE
    /\ selected_pid = None
    /\ update_interval = InitialInterval
    /\ last_update = 0
    /\ history = <<>>
    /\ process_filter = <<>>
    /\ energy_saving_mode = FALSE
    /\ tick = NoTick
    /\ op = "new"
    /\ pushed = <<>>
    /\ kill_outcome = NoKill

----------------------------------------------------------------------------
(* The clock *)

AdvanceTime ==
    /\ now < MaxTime
    /\ now' = now + 1
    /\ UNCHANGED <<system, processes, disks, process_indices, sort_column,
                   sort_descending, selected_pid, update_interval, last_update,
                   history, process_filter, energy_saving_mode, tick, op, pushed,
                   kill_outcome>>

----------------------------------------------------------------------------
(* ResourceMonitor::update(ctx): one tick.  is_focused is the viewport's    *)
(* focus; raw and total_cpu are what refresh_processes and refresh_cpu      *)
(* load if they are called, disk_list what Disks::new_with_refreshed_list   *)
(* returns if it is called.  Memory is never refreshed after new().         *)
(* logged says whether the log pushed, which is no field of the program,   *)
(* records the sample.                                                      *)

update_tick(is_focused, raw, total_cpu, disk_list, logged) ==
    LET effective == effective_interval(is_focused, energy_saving_mode, update_interval)
        since == now - last_update
    IN /\ op' = "update"
       /\ kill_outcome' = NoKill
       /\ IF since < effective
          THEN /\ tick' = [is_focused |-> is_focused, at |-> now,
                           time_since_update |-> since,
                           effective_interval |-> effective, refreshed |-> FALSE,
                           repaint_after |-> time_until_next_update(effective, since),
                           disk_updated |-> FALSE]
               /\ UNCHANGED <<now, system, processes, disks, process_indices, sort_column,
                              sort_descending, selected_pid, update_interval,
                              last_update, history, process_filter,
                              energy_saving_mode, pushed>>
          ELSE /\ last_update' = now
               /\ system' = [system EXCEPT !.cpu = total_cpu, !.processes = raw]
               /\ processes' = Ingest(system'.processes, process_filter)
               /\ process_indices' = sort_process_indices(process_indices, processes',
                                                          sort_column, sort_descending)
               /\ disks' = IF disk_due(since, update_interval)
                           THEN update_disk_info(disk_list)
                           ELSE disks
               /\ history' = history_push(history, Sample(system'.cpu, system'.used_memory))
               /\ pushed' = IF logged
                            THEN Append(pushed, Sample(system'.cpu, system'.used_memory))
                            ELSE pushed
               /\ tick' = [is_focused |-> is_focused, at |-> now,
                           time_since_update |-> since,
                           effective_interval |-> effective, refreshed |-> TRUE,
                           repaint_after |-> effective,
                           disk_updated |-> disk_due(since, update_interval)]
               /\ UNCHANGED <<now, sort_column, sort_descending, selected_pid,
                              update_interval, process_filter, energy_saving_mode>>

\* a tick whose history sample is also written to the log pushed
update(is_focused, raw, total_cpu, disk_list) ==
    update_tick(is_focused, raw, total_cpu, disk_list, TRUE)

----------------------------------------------------------------------------
(* eframe::App::update: the menu panel *)

\* the interval slider was moved to v
SliderChanged(v) ==
    /\ v # update_interval
    /\ update_interval' = v
    /\ last_update' = now - v
    /\ op' = "slider"
    /\ tick' = NoTick
    /\ kill_outcome' = NoKill
    /\ UNCHANGED <<now, system, processes, disks, process_indices, sort_column,
                   sort_descending, selected_pid, history, process_filter,
                   energy_saving_mode, pushed>>

\* the "Update now" button
UpdateNow ==
    /\ last_update' = now - update_interval
    /\ op' = "update_now"
    /\ tick' = NoTick
    /\ kill_outcome' = NoKill
    /\ UNCHANGED <<now, system, processes, disks, process_indices, sort_column,
                   sort_descending, selected_pid, update_interval, history,
                   process_filter, energy_saving_mode, pushed>>

\* the "Energy saving" checkbox
ToggleEnergySaving ==
    /\ energy_saving_mode' = ~energy_saving_mode
    /\ op' = "energy"
    /\ tick' = NoTick
    /\ kill_outcome' = NoKill
    /\ UNCHANGED <<now, system, processes, disks, process_indices, sort_column,
                   sort_descending, selected_pid, update_interval, last_update,
                   history, process_filter, pushed>>

\* the "Export JSON" button: serialises processes, writes a file
ExportJson ==
    /\ op' = "export"
    /\ tick' = NoTick
    /\ kill_outcome' = NoKill
    /\ UNCHANGED <<now, system, processes, disks, process_indices, sort_column,
                   sort_descending, selected_pid, update_interval, last_update,
                   history, process_filter, energy_saving_mode, pushed>>

----------------------------------------------------------------------------
(* ResourceMonitor::render_process_table *)

\* the search box was edited to f
FilterEdited(f) ==
    /\ f # process_filter
    /\ process_filter' = f
    /\ op' = "filter"
    /\ tick' = NoTick
    /\ kill_outcome' = NoKill
    /\ UNCHANGED <<now, system, processes, disks, process_indices, sort_column,
                   sort_descending, selected_pid, update_interval, last_update,
                   history, energy_saving_mode, pushed>>

\* mutant: every newly chosen column starts ascending
default_descending_never(col) == FALSE

default_descending(col) == col \in {"Cpu", "Memory"}

\* a column header was clicked
HeaderClicked(col) ==
    /\ IF sort_column = col
       THEN /\ sort_descending' = ~sort_descending
            /\ sort_column' = sort_column
       ELSE /\ sort_column' = col
            /\ sort_descending' = default_descending(col)
    /\ process_indices' = sort_process_indices(process_indices, processes,
                                               sort_column', sort_descending')
    /\ op' = "sort"
    /\ tick' = NoTick
    /\ kill_outcome' = NoKill
    /\ UNCHANGED <<now, system, processes, disks, selected_pid, update_interval, last_update,
                   history, process_filter, energy_saving_mode, pushed>>

\* the row at position index of the cache was clicked
RowClicked(index) ==
    /\ index \in 0..(Len(processes) - 1)
    /\ \E k \in 1..Len(process_indices) : process_indices[k] = index
    /\ selected_pid' = Some(processes[index + 1].pid)
    /\ op' = "select"
    /\ tick' = NoTick
    /\ kill_outcome' = NoKill
    /\ UNCHANGED <<now, system, processes, disks, process_indices, sort_column,
                   sort_descending, update_interval, last_update, history,
                   process_filter, energy_saving_mode, pushed>>

----------------------------------------------------------------------------
(* ResourceMonitor::render_process_details and kill_selected_process *)

SelectedShown ==
    /\ selected_pid # None
    /\ \E k \in 1..Len(process_indices) :
          /\ process_indices[k] + 1 \in 1..Len(processes)
          /\ processes[process_indices[k] + 1].pid = selected_pid[1]

\* what the panel draws under its heading when the selected pid has a record
DetailWidgets == <<"details_grid", "Terminate Process", "CPU Usage: ", "Memory Usage: ">>

\* what the panel draws under its heading when nothing is selected
HintWidgets == <<"Select a process from the table ", "to view details ", "<- Click on a row ">>

\* process_indices.iter().position(|&i| processes[i].pid == pid), 1-based
position_of_selected ==
    CHOOSE k \in 1..Len(process_indices) :
        /\ processes[process_indices[k] + 1].pid = selected_pid[1]
        /\ \A j \in 1..(k - 1) : processes[process_indices[j] + 1].pid # selected_pid[1]

\* the panel under the heading "Process Details": the widgets drawn and the
\* record they show; the inner "if let Some(index)" has no else branch
render_process_details ==
    IF selected_pid # None
    THEN IF SelectedShown
         THEN [widgets |-> DetailWidgets,
               record |-> Some(processes[process_indices[position_of_selected] + 1])]
         ELSE [widgets |-> <<>>, record |-> None]
    ELSE [widgets |-> HintWidgets, record |-> None]

\* system.process(pid): the provider's table has the pid
system_process(pid) ==
    \E i \in 1..Len(system.processes) : system.processes[i].pid = pid

\* what kill_selected_process asks of the provider and prints: kill() is
\* called once if the provider's table has the pid, and "Process {} killed"
\* is printed only when it returns true; nothing is printed or returned
\* otherwise
KillOutcome(killed) ==
    IF selected_pid # None /\ system_process(selected_pid[1])
    THEN [requests |-> 1, killed |-> killed,
          printed |-> IF killed THEN Some(selected_pid[1]) ELSE None]
    ELSE NoKill

\* mutant: a successful kill also drops the selection
kill_selected_process_deselecting(killed) ==
    /\ SelectedShown
    /\ selected_pid' = IF killed THEN None ELSE selected_pid
    /\ op' = "kill"
    /\ tick' = NoTick
    /\ kill_outcome' = KillOutcome(killed)
    /\ UNCHANGED <<now, system, processes, disks, process_indices, sort_column,
                   sort_descending, update_interval, last_update,
                   history, process_filter, energy_saving_mode, pushed>>

\* the "Terminate Process" button, which the panel shows with the record of
\* the selected pid; killed is what process.kill() returns
kill_selected_process(killed) ==
    /\ SelectedShown
    /\ op' = "kill"
    /\ tick' = NoTick
    /\ kill_outcome' = KillOutcome(killed)
    /\ UNCHANGED <<now, system, processes, disks, process_indices, sort_column,
                   sort_descending, selected_pid, update_interval, last_update,
                   history, process_filter, energy_saving_mode, pushed>>

----------------------------------------------------------------------------
(* Specifications *)

SortColumns == {"Name", "Cpu", "Memory", "Status"}
SliderValues == { v \in SliderMin..SliderMax : v <= MaxInterval }

\* the scheduler: ticks against the clock, the slider, "Update now" and the
\* energy-saving checkbox
Next ==
    \/ AdvanceTime
    \/ \E f \in BOOLEAN, d \in DiskLists :
          /\ update(f, Quiet.raw, Quiet.cpu, d)
          /\ Len(pushed') <= MaxPushes
    \/ \E v \in SliderValues : SliderChanged(v)
    \/ UpdateNow
    \/ ToggleEnergySaving

Spec == Init /\ [][Next]_vars

\* the history ring on a long run of forced refreshes; the k-th reading of
\* the global cpu usage is k, so every sample differs from every other
NextHistory ==
    \/ UpdateNow
    \/ /\ update(TRUE, Quiet.raw, Len(pushed) + 1, Quiet.disks)
       /\ Len(pushed') <= max_history_points + ExtraPushes

SpecHistory == Init /\ [][NextHistory]_vars

\* ingestion: forced refreshes with any snapshot, and edits of the filter
NextIngest ==
    \/ UpdateNow
    \/ \E raw \in RawSnapshots :
          /\ update(TRUE, raw, Quiet.cpu, Quiet.disks)
          /\ Len(pushed') <= MaxPushes
    \/ \E f \in Filters : FilterEdited(f)

SpecIngest == Init /\ [][NextIngest]_vars

\* ranking: forced refreshes with any snapshot, and clicks on the headers
NextRank ==
    \/ UpdateNow
    \/ \E raw \in RawSnapshots :
          /\ update(TRUE, raw, Quiet.cpu, Quiet.disks)
          /\ Len(pushed') <= MaxPushes
    \/ \E col \in SortColumns : HeaderClicked(col)

SpecRank == Init /\ [][NextRank]_vars

\* the snapshots in which the provider lists the processes by ascending pid
OrderedSnapshots ==
    { s \in RawSnapshots : \A i, j \in 1..Len(s) : i < j => s[i].pid < s[j].pid }

\* the table and the details panel: forced refreshes, and every intent
NextTable ==
    \/ UpdateNow
    \/ \E raw \in OrderedSnapshots :
          /\ update(TRUE, raw, Quiet.cpu, Quiet.disks)
          /\ Len(pushed') <= MaxPushes
    \/ ExportJson
    \/ \E f \in Filters : FilterEdited(f)
    \/ \E col \in SortColumns : HeaderClicked(col)
    \/ \E i \in 0..(Cardinality(ProcPool) - 1) : RowClicked(i)
    \/ \E k \in BOOLEAN : kill_selected_process(k)

SpecTable == Init /\ [][NextTable]_vars

\* whole ticks on a long run: refreshes with snapshots of any length, ticks
\* that decline, and clicks on the headers
NextRefresh ==
    \/ UpdateNow
    \/ \E raw \in OrderedSnapshots :
          /\ update(TRUE, raw, Quiet.cpu, Quiet.disks)
          /\ Len(pushed') <= max_history_points + ExtraPushes
    \/ \E col \in SortColumns : HeaderClicked(col)

SpecRefresh == Init /\ [][NextRefresh]_vars

\* the instant for which the latest tick asked to be woken
wake_at == tick.at + tick.repaint_after

\* a frame is due: at start-up, after an input event, and at the wake time
FrameDue == op # "update" \/ now >= wake_at

\* the host sleeps until the requested wake time.  Instants are kept
\* relative to the present: instead of now growing, last_update and tick.at
\* recede by the time slept; update() reads only now - last_update
SleepUntilWake ==
    /\ ~FrameDue
    /\ last_update' = last_update - (wake_at - now)
    /\ tick' = [tick EXCEPT !.at = @ - (wake_at - now)]
    /\ UNCHANGED <<now, system, processes, disks, process_indices, sort_column,
                   sort_descending, selected_pid, update_interval, history,
                   process_filter, energy_saving_mode, op, pushed, kill_outcome>>

\* a tick that arrives exactly when a frame is due; the log is off, so that
\* a run of any length stays within finitely many states
PunctualTick ==
    /\ FrameDue
    /\ \E f \in BOOLEAN, d \in DiskLists :
          update_tick(f, Quiet.raw, Quiet.cpu, d, FALSE)

\* the scheduler with a punctual host: every frame is a tick at the
\* requested wake time or right after a click on the energy-saving box
NextPunctual ==
    \/ PunctualTick
    \/ SleepUntilWake
    \/ ToggleEnergySaving

\* ticks keep arriving, and time advances however often the box is clicked
SpecPunctual ==
    /\ Init
    /\ [][NextPunctual]_vars
    /\ WF_vars(PunctualTick)
    /\ SF_vars(SleepUntilWake)

----------------------------------------------------------------------------
(* Claims about the scheduler, checked under Spec *)

\* a step that is one call of update(ctx)
UpdateStep == op' = "update" /\ now' = now

\* C1: the effective interval a tick computes is the base interval times 1
\* when the window is focused and energy saving is off, times 2 when it is
\* focused and energy saving is on, and times 5 when it is unfocused,
\* whatever the energy-saving flag.
C1_EffectiveIntervalTable ==
    op = "update" =>
        /\ (tick.is_focused /\ ~energy_saving_mode
               => tick.effective_interval = update_interval)
        /\ (tick.is_focused /\ energy_saving_mode
               => tick.effective_interval = update_interval * 2)
        /\ (~tick.is_focused => tick.effective_interval = update_interval * 5)

C1_Witness ==
    /\ op = "update"
    /\ ~tick.is_focused
    /\ energy_saving_mode
    /\ update_interval < InitialInterval
    /\ tick.effective_interval = update_interval * 5

\* C2: a tick refreshes exactly when the time since last_update is at least
\* the effective interval.  A tick that declines asks to be woken after
\* max(effective interval - elapsed, 0.1 s) and leaves last_update, the
\* process cache, the rank index, the history ring and the disk list as
\* they were; a tick that refreshes sets last_update to the current time.
C2_TickRefreshesWhenDue ==
    [][UpdateStep =>
         /\ tick'.time_since_update = now - last_update
         /\ tick'.refreshed = (now - last_update >= tick'.effective_interval)
         /\ ~tick'.refreshed =>
               /\ tick'.repaint_after =
                     Max(tick'.effective_interval - (now - last_update), MinWake)
               /\ UNCHANGED <<last_update, processes, process_indices, history, disks>>
         /\ tick'.refreshed => last_update' = now]_vars

C2_Witness ==
    /\ op = "update"
    /\ ~tick.refreshed
    /\ tick.effective_interval - tick.time_since_update < MinWake
    /\ tick.repaint_after = MinWake
    /\ last_update = tick.at - tick.time_since_update

\* C3: after "Update now" the very next tick refreshes, whatever the focus
\* and the energy-saving flag.
C3_UpdateNowForcesRefresh ==
    [][(op = "update_now" /\ UpdateStep) => tick'.refreshed]_vars

\* C4: the disk list is replaced only inside a refreshing tick, and a
\* refreshing tick replaces it exactly when the time since the previous
\* refresh is strictly greater than twice the base interval; otherwise the
\* disk list stays as it was.
C4_DiskGate ==
    [][/\ disks' # disks => (UpdateStep /\ tick'.refreshed /\ tick'.disk_updated)
       /\ UpdateStep =>
             /\ tick'.disk_updated =
                   (tick'.refreshed /\ now - last_update > update_interval * 2)
             /\ tick'.disk_updated => \E d \in DiskLists : disks' = update_disk_info(d)
             /\ ~tick'.disk_updated => disks' = disks]_vars

C4_Witness ==
    /\ op = "update"
    /\ tick.refreshed
    /\ tick.disk_updated
    /\ tick.is_focused
    /\ energy_saving_mode
    /\ tick.time_since_update = update_interval * 2 + 1
    /\ tick.time_since_update < update_interval * 5

----------------------------------------------------------------------------
(* Claims about the history ring, checked under SpecHistory *)

\* C5: after n pushes the history ring holds exactly min(n, 100) samples,
\* never more than 100, and they are the min(n, 100) most recently pushed
\* samples, oldest first; so a push at capacity drops exactly the oldest.
C5_HistoryIsRecentWindow ==
    LET n == Len(pushed)
        k == IF n < 100 THEN n ELSE 100
    IN /\ Len(history) = k
       /\ Len(history) <= 100
       /\ \A i \in 1..k : history[i] = pushed[n - k + i]

C5_Witness ==
    /\ Len(pushed) = 102
    /\ Len(history) = 100
    /\ history[1] = pushed[3]
    /\ history[100] = pushed[102]
    /\ pushed[1] # pushed[3]

----------------------------------------------------------------------------
(* Claims about ingestion, checked under SpecIngest *)

SameLetter(a, b) ==
    \/ a = b
    \/ a \in 65..90 /\ b = a + 32
    \/ b \in 65..90 /\ a = b + 32

ContainsIgnoringCase(name, text) ==
    \E i \in 0..(Len(name) - Len(text)) :
        \A j \in 1..Len(text) : SameLetter(name[i + j], text[j])

ShownName(p) == IF Len(p.name) = 0 THEN <<80, 73, 68, 58, 32>> \o Decimal(p.pid)
                ELSE p.name

RECURSIVE VisibleRows(_, _)
VisibleRows(raw, text) ==
    IF raw = <<>> THEN <<>>
    ELSE (IF ContainsIgnoringCase(ShownName(Head(raw)), text)
          THEN <<[name |-> ShownName(Head(raw)), pid |-> Head(raw).pid,
                  cpu_usage |-> Head(raw).cpu_usage,
                  memory_usage |-> Head(raw).memory,
                  status |-> Head(raw).status]>>
          ELSE <<>>) \o VisibleRows(Tail(raw), text)

RowOf(r) == [name |-> r.name, pid |-> r.pid, cpu_usage |-> r.cpu_usage,
             memory_usage |-> r.memory_usage, status |-> r.status]

\* C6: a refresh replaces the cache with exactly the raw entries whose
\* display name contains the filter text case-insensitively (all of them
\* when the filter is empty), in their original order; the display name is
\* the provider's name or, when that is empty, "PID: <pid>", so no cached
\* row has an empty name.
C6_IngestKeepsMatchingRows ==
    (op = "update" /\ tick.refreshed) =>
        /\ [i \in 1..Len(processes) |-> RowOf(processes[i])]
              = VisibleRows(system.processes, process_filter)
        /\ \A i \in 1..Len(processes) : processes[i].name # <<>>

C6_Witness ==
    /\ op = "update"
    /\ tick.refreshed
    /\ process_filter = <<97, 98>>
    /\ Len(system.processes) = 3
    /\ system.processes[1].name = <<97, 66>>
    /\ system.processes[2].name = <<>>
    /\ Len(processes) = 2
    /\ processes[1].name = <<97, 66>>
    /\ processes[2].name = <<65, 98>>

----------------------------------------------------------------------------
(* Claims about the selection, checked under SpecTable *)

\* C7: the selection changes only by a click on a row: refresh ticks (also
\* one whose snapshot lacks the selected pid), filter edits, header clicks,
\* termination requests and exports leave it as it was.
C7_SelectionChangesOnlyByRowClick ==
    [][selected_pid' # selected_pid =>
         /\ op' = "select"
         /\ \E i \in 1..Len(processes) : selected_pid' = Some(processes[i].pid)]_vars

C7_Witness ==
    /\ op = "update"
    /\ tick.refreshed
    /\ selected_pid = Some(42)
    /\ processes # <<>>
    /\ \A i \in 1..Len(processes) : processes[i].pid # 42

----------------------------------------------------------------------------
(* Claims about ranking, checked under SpecRank *)

\* the rows at positions a and b are in display order under the key col
InOrder(procs, col, desc, a, b) ==
    LET lo == IF desc THEN procs[b + 1] ELSE procs[a + 1]
        hi == IF desc THEN procs[a + 1] ELSE procs[b + 1]
    IN IF col = "Name" THEN StrCmp(lo.name, hi.name) # "Greater"
       ELSE IF col = "Status" THEN StrCmp(lo.status, hi.status) # "Greater"
       ELSE IF col = "Memory" THEN lo.memory_usage <= hi.memory_usage
       ELSE lo.cpu_usage.nan \/ hi.cpu_usage.nan
            \/ lo.cpu_usage.val <= hi.cpu_usage.val

IsPermutation(idx, n) ==
    /\ Len(idx) = n
    /\ \A a \in 0..(n - 1) : \E k \in 1..n : idx[k] = a

Ranked(idx, procs, col, desc) ==
    /\ IsPermutation(idx, Len(procs))
    /\ \A k \in 1..(Len(idx) - 1) : InOrder(procs, col, desc, idx[k], idx[k + 1])

\* C8: the sort state starts as {Name, ascending}; a click on the header of
\* the current column flips the direction and keeps the column; a click on
\* another header selects that column with its default direction, ascending
\* for Name and Status, descending for Cpu and Memory; nothing else changes
\* the sort state, and every click re-ranks at once.
C8_SortStateTransitions ==
    /\ sort_column = "Name" /\ sort_descending = FALSE
    /\ [][/\ <<sort_column, sort_descending>>' # <<sort_column, sort_descending>>
                => op' = "sort"
          /\ op' = "sort" =>
                /\ \/ sort_column' = sort_column /\ sort_descending' = ~sort_descending
                   \/ /\ sort_column' # sort_column
                      /\ sort_column' \in {"Name", "Status"} => sort_descending' = FALSE
                      /\ sort_column' \in {"Cpu", "Memory"} => sort_descending' = TRUE
                /\ processes' = processes
                /\ Ranked(process_indices', processes', sort_column', sort_descending')]_vars

C8_Witness ==
    /\ op = "sort"
    /\ sort_column = "Cpu"
    /\ sort_descending
    /\ Len(processes) = 2
    /\ process_indices = <<1, 0>>

ReverseSeq(q) == [k \in 1..Len(q) |-> q[Len(q) + 1 - k]]

\* f32 and the other key types compared with ==; a NaN differs from all
SameKey(p, q, col) ==
    IF col = "Name" THEN p.name = q.name
    ELSE IF col = "Status" THEN p.status = q.status
    ELSE IF col = "Memory" THEN p.memory_usage = q.memory_usage
    ELSE ~p.cpu_usage.nan /\ ~q.cpu_usage.nan /\ p.cpu_usage.val = q.cpu_usage.val

DistinctKeys(procs, col) ==
    \A i, j \in 1..Len(procs) : i # j => ~SameKey(procs[i], procs[j], col)

\* C9: re-ranking an unchanged cache with the same key and direction gives
\* the same rank index again, and for a cache whose keys under the sort key
\* are all distinct, re-ranking with the direction flipped gives exactly the
\* reverse of the previous rank index.
C9_RerankIdempotentAndReversible ==
    [][/\ (op' = "update" /\ now' = now /\ tick'.refreshed /\ processes' = processes)
             => process_indices' = process_indices
       /\ (op' = "sort" /\ sort_column' = sort_column
              /\ DistinctKeys(processes, sort_column))
             => process_indices' = ReverseSeq(process_indices)]_vars

\* C10: the comparator used to rank by Cpu is a total order over all
\* cpu_usage values, NaN included: with non-comparable pairs treated as
\* equal it is consistent and transitive, equality included.
C10_CpuComparatorIsTotalOrder ==
    \A a, b, c \in 0..(Len(processes) - 1) :
        /\ KeyCmp(processes, "Cpu", a, b) = Reverse(KeyCmp(processes, "Cpu", b, a))
        /\ (KeyCmp(processes, "Cpu", a, b) = "Equal"
              /\ KeyCmp(processes, "Cpu", b, c) = "Equal")
             => KeyCmp(processes, "Cpu", a, c) = "Equal"
        /\ (KeyCmp(processes, "Cpu", a, b) # "Greater"
              /\ KeyCmp(processes, "Cpu", b, c) # "Greater")
             => KeyCmp(processes, "Cpu", a, c) # "Greater"

----------------------------------------------------------------------------
\* C11: whenever a pid is selected and the cache has no record of it, the
\* detail panel draws an explicit "no data" display, different from what it
\* draws for a present pid and from what it draws with nothing selected; and
\* the record the panel shows is always a record of the current cache.
SelectedAbsent ==
    /\ selected_pid # None
    /\ \A i \in 1..Len(processes) : processes[i].pid # selected_pid[1]

C11_AbsentSelectionShowsNoData ==
    LET view == render_process_details
    IN /\ SelectedAbsent => /\ view.widgets # <<>>
                            /\ view.widgets # DetailWidgets
                            /\ view.widgets # HintWidgets
       /\ view.record # None => \E i \in 1..Len(processes) : processes[i] = view.record[1]

\* the part of C11 that the panel keeps: no stale record, and three
\* different drawings
C11_NoStaleRecord ==
    LET view == render_process_details
    IN /\ SelectedAbsent => view.widgets \notin {DetailWidgets, HintWidgets}
       /\ view.record # None =>
             /\ \E i \in 1..Len(processes) : processes[i] = view.record[1]
             /\ view.record[1].pid = selected_pid[1]

C11_Witness == SelectedAbsent /\ op = "update" /\ Len(processes) > 0

----------------------------------------------------------------------------
\* C12: a termination request for the selected pid asks the provider once;
\* when the request fails the failure is reported, and the selection, the
\* cache, the rank index and the history are left as they were.
KillStep == op' = "kill"

C12_FailedKillIsReported ==
    [][KillStep =>
          /\ kill_outcome'.requests = 1
          /\ (~kill_outcome'.killed => kill_outcome'.printed # None)
          /\ UNCHANGED <<selected_pid, processes, process_indices, history>>]_vars

\* the part of C12 that kill_selected_process keeps: one request, nothing
\* but the outcome changes, and a success is printed with the pid
C12_KillLeavesState ==
    [][KillStep =>
          /\ kill_outcome'.requests = 1
          /\ (kill_outcome'.killed => kill_outcome'.printed = selected_pid)
          /\ UNCHANGED <<now, system, processes, disks, process_indices, sort_column,
                         sort_descending, selected_pid, update_interval, last_update,
                         history, process_filter, energy_saving_mode, pushed>>]_vars

C12_Witness ==
    /\ op = "kill"
    /\ kill_outcome.requests = 1
    /\ ~kill_outcome.killed
    /\ Len(history) > 0

----------------------------------------------------------------------------
\* C13: for every disk record, used_space is total - available floored at 0,
\* and usage_percent is used_space / total x 100: 0 when total is 0 and 75
\* for total 1000 and available 250; in the list built by new() and after
\* every later disk refresh.
C13_DiskNumbers ==
    \A i \in 1..Len(disks) :
        LET d == disks[i]
        IN /\ d.used_space = IF d.available_space > d.total_space
                             THEN 0
                             ELSE d.total_space - d.available_space
           /\ d.used_space >= 0
           /\ d.total_space = 0 => d.usage_percent = 0
           /\ d.total_space > 0 => d.usage_percent * d.total_space = d.used_space * 100
           /\ (d.total_space = 1000 /\ d.available_space = 250) => d.usage_percent = 75

C13_Witness ==
    /\ op = "update"
    /\ tick.disk_updated
    /\ Len(disks) = 2
    /\ disks[1].total_space = 0
    /\ disks[2].available_space > disks[2].total_space
    /\ disks[2].used_space = 0

----------------------------------------------------------------------------
\* C14: in every state, after any interleaving of refresh ticks and edits
\* of the filter text, every row of the process cache has a display name
\* that contains the current filter text case-insensitively.
CacheMatches(text) ==
    \A i \in 1..Len(processes) : ContainsIgnoringCase(processes[i].name, text)

C14_CacheMatchesCurrentFilter == CacheMatches(process_filter)

\* the part of C14 that update() keeps: the cache matches the filter text
\* from each refresh until the text is edited
C14_CacheMatchesFilterUntilEdited ==
    /\ CacheMatches(process_filter)
    /\ [][(CacheMatches(process_filter) /\ op' # "filter")
             => CacheMatches(process_filter)']_vars

C14_Witness ==
    /\ op = "filter"
    /\ Len(processes) = 3
    /\ process_filter = <<97, 98>>
    /\ ~ContainsIgnoringCase(processes[2].name, process_filter)

----------------------------------------------------------------------------
\* C15: in every state, after any sequence of refresh ticks (with snapshots
\* of equal or different lengths) and header clicks, the rank index is a
\* permutation of the positions 0..n-1 of the current cache, so every index
\* in it is a valid position, and it lists them in non-decreasing order of
\* the current sort key when ascending and in non-increasing order when
\* descending: no position comes before one that compares less (greater).
Sorted(idx, procs, col, desc) ==
    \A j, k \in 1..Len(idx) : j < k => InOrder(procs, col, desc, idx[j], idx[k])

C15_RankIndexIsSortedPermutation ==
    /\ IsPermutation(process_indices, Len(processes))
    /\ \A k \in 1..Len(process_indices) : process_indices[k] \in 0..(Len(processes) - 1)
    /\ Sorted(process_indices, processes, sort_column, sort_descending)

\* the part of C15 that sort_process_indices keeps with any cpu_usage: a
\* permutation whose neighbours are in order; and the whole of it when no
\* cpu_usage of the cache is NaN
NoNaN(procs) == \A i \in 1..Len(procs) : ~procs[i].cpu_usage.nan

C15_RankIndexIsRankedPermutation ==
    /\ Ranked(process_indices, processes, sort_column, sort_descending)
    /\ NoNaN(processes) => Sorted(process_indices, processes, sort_column, sort_descending)

C15_Witness ==
    /\ op = "update"
    /\ sort_column = "Cpu"
    /\ ~sort_descending
    /\ Len(processes) = 3
    /\ processes[process_indices[2] + 1].cpu_usage.nan
    /\ processes[process_indices[1] + 1].cpu_usage.val
          > processes[process_indices[3] + 1].cpu_usage.val

----------------------------------------------------------------------------
\* C16: a refreshing tick does all of its work in the one step: it replaces
\* the whole cache from the new snapshot, ranks the new cache and pushes
\* exactly one history sample, and no other step pushes one; so in every
\* state the history holds min(refreshes so far, 100) samples and the rank
\* index is a ranking of the cache it is shown with.
RefreshStep == UpdateStep /\ tick'.refreshed

C16_RefreshIsOneStep ==
    /\ Len(pushed) = 0 /\ Len(history) = 0
    /\ [][/\ RefreshStep =>
                /\ [i \in 1..Len(processes') |-> RowOf(processes'[i])]
                      = VisibleRows(system'.processes, process_filter')
                /\ Ranked(process_indices', processes', sort_column', sort_descending')
                /\ Len(pushed') = Len(pushed) + 1
                /\ history'[Len(history')] = pushed'[Len(pushed')]
                /\ Len(history') =
                      IF Len(pushed') < 100 THEN Len(pushed') ELSE 100
          /\ ~RefreshStep =>
                /\ pushed' = pushed
                /\ history' = history
                /\ processes' = processes
                /\ Ranked(process_indices', processes', sort_column', sort_descending')]_vars

C16_Witness ==
    /\ op = "update"
    /\ tick.refreshed
    /\ Len(pushed) = 102
    /\ Len(history) = 100
    /\ Len(processes) = 3
    /\ process_indices = <<2, 0, 1>>

----------------------------------------------------------------------------
\* C17: while ticks keep arriving at the requested wake times and time
\* advances, a disk refresh always occurs again, whatever the focus and the
\* energy-saving mode are.
DiskRefreshed == op = "update" /\ tick.disk_updated

C17_DiskRefreshRecurs == []<>DiskRefreshed

\* the part of C17 that update() keeps: with the window unfocused from some
\* tick on, disk refreshes recur (with every process refresh)
C17_DiskRefreshRecursUnfocused ==
    <>[](op = "update" => ~tick.is_focused) => []<>DiskRefreshed

C17_Witness ==
    /\ op = "update"
    /\ tick.refreshed
    /\ tick.is_focused
    /\ ~energy_saving_mode
    /\ tick.time_since_update = update_interval
    /\ ~tick.disk_updated
    /\ Len(history) = max_history_points

====
